---- MODULE Spec2Model ----
(***************************************************************************)
(* Model of the gait optimal-control set-up: the main script (main.py),    *)
(* prepare_ocp and the contact-force tracking objective (gait/ocp.py).     *)
(*                                                                         *)
(* Python lists are sequences; position k of a sequence is list index      *)
(* k - 1.  Phase numbers, contact indices and marker indices keep their    *)
(* Python (0-based) values.  Real quantities are held in thousandths, so   *)
(* that 1e-3 is 1 and 1.0 is 1000.                                         *)
(***************************************************************************)
EXTENDS Integers, Sequences, FiniteSets, TLC

\* ------------------------------------------------------------------ bounds
MaxPhases == 5
MaxTau == 2
MaxMus == 2
MaxSeed == 1
MaxContacts == 3
MaxForce == 2

\* ------------------------------------------------------- program constants
\* main.py builds a tuple of four models
MainNbPhases == 4
torque_min == -1000000
torque_max == 1000000
activation_min == 1
activation_max == 1000
last_dynamics_phase == 3

VARIABLES
    mpc,                 \* position of the main script
    trace,               \* the script's calls and returns, in order
    sol,                 \* main.py: sol
    pc,                  \* position inside prepare_ocp
    p,                   \* prepare_ocp: loop variable p
    nb_phases,           \* len(biorbd_model)
    nb_tau,              \* biorbd_model[0].nbGeneralizedTorque()
    nb_mus,              \* biorbd_model[0].nbMuscleTotal()
    q_ref,               \* argument q_ref, one value per phase
    qdot_ref,            \* argument qdot_ref, one value per phase
    gait_bo,             \* content of the file "gait.bo"
    sol_previous,        \* prepare_ocp: sol_previous
    objective_functions,
    dynamics,
    constraints,
    phase_transitions,
    x_bounds,
    u_bounds,
    x_init,
    u_init,
    ocp,                 \* <<>> or <<the assembled problem>>
    fpc,                 \* position of track_sum_contact_forces
    force_names,         \* pn.nlp.model.contactNames()
    force_tp,            \* contact forces, one row per contact
    force                \* the returned 3-component force, <<>> before

inputs == <<nb_phases, nb_tau, nb_mus, q_ref, qdot_ref, gait_bo>>
mainVars == <<mpc, trace, sol>>
lists == <<objective_functions, dynamics, constraints, phase_transitions,
           x_bounds, u_bounds, x_init, u_init>>
forceVars == <<fpc, force_names, force_tp, force>>
vars == <<mainVars, pc, p, inputs, sol_previous, lists, ocp, forceVars>>

\* ----------------------------------------------------------------- helpers
Repeat(x, n) == [k \in 1..n |-> x]

Phases(n) == 0..(n - 1)

RECURSIVE SeqSum(_)
SeqSum(s) == IF s = <<>> THEN 0 ELSE Head(s) + SeqSum(Tail(s))

\* ------------------------------------------------------------ input domains
\* q_ref[p], qdot_ref[p] and the saved states each stand for one array; an
\* array is identified by an integer.
RefArrays(n) == {[ph \in Phases(n) |-> v + ph] : v \in 0..MaxSeed}

\* A saved solution: per phase the states array ("q" part, "qdot" part) and
\* the controls, one column per node.
SavedSolution(n, v) ==
    [states   |-> [k \in 1..n |-> <<v + (k - 1), v + k>>],
     controls |-> [k \in 1..n |-> <<v + k, v + k + 1, v + k + 2>>]]

SavedFiles == {SavedSolution(n, v) : n \in 1..MaxPhases, v \in 0..MaxSeed}

NoSolution == [states |-> <<>>, controls |-> <<>>]

\* ------------------------------------------------- prepare_ocp: objectives
markers_index == <<"markers_pelvis", "markers_anat", "markers_foot", "markers_tissus">>
weight == <<10000000, 1000000, 10000000, 100000>>

PhaseObjectives(ph) ==
    [i \in 1..4 |-> [fcn |-> "TRACK_MARKERS", key |-> markers_index[i],
                     weight |-> weight[i], phase |-> ph]]
    \o << [fcn |-> "MINIMIZE_CONTROL", key |-> "tau", weight |-> 1, phase |-> ph],
          [fcn |-> "MINIMIZE_CONTROL", key |-> "tau", weight |-> 1000, phase |-> ph],
          [fcn |-> "MINIMIZE_CONTROL", key |-> "muscles", weight |-> 10000, phase |-> ph],
          [fcn |-> "MINIMIZE_CONTROL_DERIVATIVE", key |-> "tau", weight |-> 100, phase |-> ph] >>

\* for p in range(nb_phases): ... objective_functions.add(...)
AddObjectives ==
    /\ pc = "objectives"
    /\ IF p < nb_phases
         THEN /\ objective_functions' = objective_functions \o PhaseObjectives(p)
              /\ p' = p + 1
              /\ pc' = pc
         ELSE /\ p' = 0
              /\ pc' = "grf_objectives"
              /\ UNCHANGED objective_functions
    /\ UNCHANGED <<mainVars, inputs, sol_previous, dynamics, constraints,
                   phase_transitions, x_bounds, u_bounds, x_init, u_init, ocp, forceVars>>

\* for p in range(nb_phases - 1): objective_functions.add(track_sum_contact_forces, ...)
AddContactForceObjectives ==
    /\ pc = "grf_objectives"
    /\ IF p < nb_phases - 1
         THEN /\ objective_functions' = Append(objective_functions,
                    [fcn |-> "track_sum_contact_forces", key |-> "grf",
                     weight |-> 10, phase |-> p])
              /\ p' = p + 1
              /\ pc' = pc
         ELSE /\ p' = 0
              /\ pc' = "dynamics"
              /\ UNCHANGED objective_functions
    /\ UNCHANGED <<mainVars, inputs, sol_previous, dynamics, constraints,
                   phase_transitions, x_bounds, u_bounds, x_init, u_init, ocp, forceVars>>

\* --------------------------------------------------- prepare_ocp: dynamics
ContactDynamics(ph) ==
    [fcn |-> "MUSCLE_DRIVEN", phase |-> ph, with_contact |-> TRUE, with_torque |-> TRUE]

\* dynamics.add(DynamicsFcn.MUSCLE_DRIVEN, phase=3, with_torque=True, expand=False)
LastDynamics(n) ==
    [fcn |-> "MUSCLE_DRIVEN", phase |-> last_dynamics_phase,
     with_contact |-> FALSE, with_torque |-> TRUE]

\* for p in range(nb_phases - 1): dynamics.add(..., phase=p, with_contact=True, ...)
AddDynamics ==
    /\ pc = "dynamics"
    /\ IF p < nb_phases - 1
         THEN /\ dynamics' = Append(dynamics, ContactDynamics(p))
              /\ p' = p + 1
              /\ pc' = pc
         ELSE /\ dynamics' = Append(dynamics, LastDynamics(nb_phases))
              /\ p' = 0
              /\ pc' = "constraints"
    /\ UNCHANGED <<mainVars, inputs, sol_previous, objective_functions, constraints,
                   phase_transitions, x_bounds, u_bounds, x_init, u_init, ocp, forceVars>>

\* ------------------------------------------------ prepare_ocp: constraints
ConstraintEntries ==
    << [fcn |-> "TRACK_MARKERS_VELOCITY", node |-> "START", phase |-> 0],
       [fcn |-> "TRACK_MARKERS", node |-> "START", phase |-> 0],
       [fcn |-> "TRACK_MARKERS", node |-> "START", phase |-> 1],
       [fcn |-> "TRACK_CONTACT_FORCES", node |-> "ALL", phase |-> 1],
       [fcn |-> "NON_SLIPPING", node |-> "ALL", phase |-> 1],
       [fcn |-> "TRACK_CONTACT_FORCES", node |-> "PENULTIMATE", phase |-> 1],
       [fcn |-> "TRACK_CONTACT_FORCES", node |-> "ALL", phase |-> 2],
       [fcn |-> "NON_SLIPPING", node |-> "ALL", phase |-> 2] >>

\* The constraints and the phase transitions.  biorbd_model[1] is read while the
\* heel constraint is built: a tuple of one model raises IndexError there, after
\* the first five constraints were added.
AddConstraints ==
    /\ pc = "constraints"
    /\ IF nb_phases >= 2
         THEN /\ constraints' = ConstraintEntries
              /\ phase_transitions' = << [fcn |-> "IMPACT", phase_pre_idx |-> 0],
                                         [fcn |-> "IMPACT", phase_pre_idx |-> 1] >>
              /\ pc' = "bounds"
         ELSE /\ constraints' = SubSeq(ConstraintEntries, 1, 5)
              /\ pc' = "raised"
              /\ UNCHANGED phase_transitions
    /\ UNCHANGED <<mainVars, p, inputs, sol_previous, objective_functions, dynamics,
                   x_bounds, u_bounds, x_init, u_init, ocp, forceVars>>

\* ----------------------------------------------------- prepare_ocp: bounds
ControlMinTorqueOnly(ntau, nmus) == Repeat(torque_min, ntau)

\* [torque_min] * nb_tau + [activation_min] * nb_mus
ControlMin(ntau, nmus) == Repeat(torque_min, ntau) \o Repeat(activation_min, nmus)

\* [torque_max] * nb_tau + [activation_max] * nb_mus
ControlMax(ntau, nmus) == Repeat(torque_max, ntau) \o Repeat(activation_max, nmus)

\* for p in range(nb_phases): x_bounds.add(...); u_bounds.add(...)
AddBounds ==
    /\ pc = "bounds"
    /\ IF p < nb_phases
         THEN /\ x_bounds' = Append(x_bounds, [bounds |-> "QAndQDotBounds", model |-> p])
              /\ u_bounds' = Append(u_bounds, [min |-> ControlMin(nb_tau, nb_mus),
                                               max |-> ControlMax(nb_tau, nb_mus)])
              /\ p' = p + 1
              /\ pc' = pc
         ELSE /\ p' = 0
              /\ pc' = "load_previous"
              /\ UNCHANGED <<x_bounds, u_bounds>>
    /\ UNCHANGED <<mainVars, inputs, sol_previous, objective_functions, dynamics,
                   constraints, phase_transitions, x_init, u_init, ocp, forceVars>>

\* ---------------------------------------------- prepare_ocp: initial guess
\* ocp_previous, sol_previous = OptimalControlProgram.load("gait.bo")
LoadPrevious ==
    /\ pc = "load_previous"
    /\ sol_previous' = gait_bo
    /\ pc' = "init"
    /\ UNCHANGED <<mainVars, p, inputs, lists, ocp, forceVars>>

\* sol_previous.states[p]['all']
StateGuess(ph, prev, q, qdot) == prev.states[ph + 1]

\* sol_previous.controls[p]['all'][:, :-1]
ControlGuess(ph, prev) ==
    SubSeq(prev.controls[ph + 1], 1, Len(prev.controls[ph + 1]) - 1)

\* for p in range(nb_phases): x_init.add(...); u_init.add(...)
\* sol_previous.states[p] raises IndexError when the saved solution has fewer
\* phases than the tuple of models.
AddInitialGuess ==
    /\ pc = "init"
    /\ IF p < nb_phases
         THEN IF p < Len(sol_previous.states)
                THEN /\ x_init' = Append(x_init,
                           [init |-> StateGuess(p, sol_previous, q_ref, qdot_ref),
                            interpolation |-> "EACH_FRAME"])
                     /\ u_init' = Append(u_init,
                           [init |-> ControlGuess(p, sol_previous),
                            interpolation |-> "EACH_FRAME"])
                     /\ p' = p + 1
                     /\ pc' = pc
                ELSE /\ pc' = "raised"
                     /\ UNCHANGED <<p, x_init, u_init>>
         ELSE /\ pc' = "return"
              /\ UNCHANGED <<p, x_init, u_init>>
    /\ UNCHANGED <<mainVars, inputs, sol_previous, objective_functions, dynamics,
                   constraints, phase_transitions, x_bounds, u_bounds, ocp, forceVars>>

\* return OptimalControlProgram(biorbd_model, dynamics, ..., x_init, u_init, ...)
ReturnOcp ==
    /\ pc = "return"
    /\ ocp' = << [nb_phases |-> nb_phases, dynamics |-> dynamics,
                  x_init |-> x_init, u_init |-> u_init,
                  x_bounds |-> x_bounds, u_bounds |-> u_bounds,
                  objective_functions |-> objective_functions,
                  constraints |-> constraints,
                  phase_transitions |-> phase_transitions] >>
    /\ pc' = "returned"
    /\ UNCHANGED <<mainVars, p, inputs, sol_previous, lists, forceVars>>

\* A library call that fails: the saved solution cannot be loaded, or the
\* OptimalControlProgram constructor rejects what it was given.
LibraryRaises ==
    /\ pc \in {"load_previous", "return"}
    /\ pc' = "raised"
    /\ UNCHANGED <<mainVars, p, inputs, sol_previous, lists, ocp, forceVars>>

PrepareOcp ==
    \/ AddObjectives
    \/ AddContactForceObjectives
    \/ AddDynamics
    \/ AddConstraints
    \/ AddBounds
    \/ LoadPrevious
    \/ AddInitialGuess
    \/ ReturnOcp
    \/ LibraryRaises

\* ------------------------------------------- prepare_ocp called on its own
EmptyLists ==
    /\ objective_functions = <<>>
    /\ dynamics = <<>>
    /\ constraints = <<>>
    /\ phase_transitions = <<>>
    /\ x_bounds = <<>>
    /\ u_bounds = <<>>
    /\ x_init = <<>>
    /\ u_init = <<>>

ForceIdle ==
    /\ fpc = "idle"
    /\ force_names = <<>>
    /\ force_tp = <<>>
    /\ force = <<>>

Init ==
    /\ mpc = "none"
    /\ trace = <<>>
    /\ sol = "none"
    /\ pc = "objectives"
    /\ p = 0
    /\ nb_phases \in 1..MaxPhases
    /\ nb_tau \in 1..MaxTau
    /\ nb_mus \in 1..MaxMus
    /\ q_ref \in RefArrays(nb_phases)
    /\ qdot_ref \in RefArrays(nb_phases)
    /\ gait_bo \in SavedFiles
    /\ sol_previous = NoSolution
    /\ EmptyLists
    /\ ocp = <<>>
    /\ ForceIdle

Next == PrepareOcp

Spec == Init /\ [][Next]_vars

\* ----------------------------------------------------------- main.py script
\* The statements of the script from line 35 on, in program order; the last
\* element is the end of the file.
MainStatementsSaveFirst ==
    <<"load_data", "phase_time", "experimental_data", "prepare_ocp", "solver",
      "save", "solve", "animate", "graphs", "end">>

MainStatements ==
    <<"load_data", "phase_time", "experimental_data", "prepare_ocp", "solver",
      "solve", "save", "animate", "graphs", "end">>

\* The statement that follows statement s.
After(s) ==
    LET k == CHOOSE i \in 1..(Len(MainStatements) - 1) : MainStatements[i] = s
    IN  MainStatements[k + 1]

\* A statement that neither calls prepare_ocp nor solve: it runs and the script
\* goes on to the next one.
\* data = LoadData(biorbd_model[0], c3d_file, ...)
LoadData ==
    /\ mpc = "load_data"
    /\ trace' = Append(trace, "load_data")
    /\ mpc' = After("load_data")
    /\ UNCHANGED <<sol, pc, p, inputs, sol_previous, lists, ocp, forceVars>>

\* phase_time, number_shooting_points = get_phase_time_shooting_numbers(data, 0.01)
PhaseTimeShootingNumbers ==
    /\ mpc = "phase_time"
    /\ trace' = Append(trace, "phase_time")
    /\ mpc' = After("phase_time")
    /\ UNCHANGED <<sol, pc, p, inputs, sol_previous, lists, ocp, forceVars>>

\* q_ref, qdot_ref, ... = get_experimental_data(data, number_shooting_points, phase_time)
GetExperimentalData ==
    /\ mpc = "experimental_data"
    /\ trace' = Append(trace, "experimental_data")
    /\ mpc' = After("experimental_data")
    /\ UNCHANGED <<sol, pc, p, inputs, sol_previous, lists, ocp, forceVars>>

\* ocp = prepare_ocp(...): the call
CallPrepareOcp ==
    /\ mpc = "prepare_ocp"
    /\ pc = "idle"
    /\ trace' = Append(trace, "prepare_ocp_call")
    /\ mpc' = "in_prepare_ocp"
    /\ pc' = "objectives"
    /\ UNCHANGED <<sol, p, inputs, sol_previous, lists, ocp, forceVars>>

\* ocp = prepare_ocp(...): the return, or the exception that ends the script
PrepareOcpReturns ==
    /\ mpc = "in_prepare_ocp"
    /\ pc \in {"returned", "raised"}
    /\ IF pc = "returned"
         THEN /\ trace' = Append(trace, "prepare_ocp_return")
              /\ mpc' = After("prepare_ocp")
         ELSE /\ mpc' = "raised"
              /\ UNCHANGED trace
    /\ UNCHANGED <<sol, pc, p, inputs, sol_previous, lists, ocp, forceVars>>

\* solver = Solver.IPOPT(); solver.set_...(...)
ConfigureSolver ==
    /\ mpc = "solver"
    /\ trace' = Append(trace, "solver")
    /\ mpc' = After("solver")
    /\ UNCHANGED <<sol, pc, p, inputs, sol_previous, lists, ocp, forceVars>>

\* sol = ocp.solve(solver=solver): the call
CallSolve ==
    /\ mpc = "solve"
    /\ trace' = Append(trace, "solve_call")
    /\ mpc' = "in_solve"
    /\ UNCHANGED <<sol, pc, p, inputs, sol_previous, lists, ocp, forceVars>>

\* sol = ocp.solve(solver=solver): the return
SolveReturns ==
    /\ mpc = "in_solve"
    /\ sol' = "solution"
    /\ trace' = Append(trace, "solve_return")
    /\ mpc' = After("solve")
    /\ UNCHANGED <<pc, p, inputs, sol_previous, lists, ocp, forceVars>>

\* ocp.save(sol, "gait_test.bo")
Save ==
    /\ mpc = "save"
    /\ trace' = Append(trace, "save")
    /\ mpc' = After("save")
    /\ UNCHANGED <<sol, pc, p, inputs, sol_previous, lists, ocp, forceVars>>

\* sol.animate(...)
Animate ==
    /\ mpc = "animate"
    /\ trace' = Append(trace, "animate")
    /\ mpc' = After("animate")
    /\ UNCHANGED <<sol, pc, p, inputs, sol_previous, lists, ocp, forceVars>>

\* sol.graphs()
Graphs ==
    /\ mpc = "graphs"
    /\ trace' = Append(trace, "graphs")
    /\ mpc' = After("graphs")
    /\ UNCHANGED <<sol, pc, p, inputs, sol_previous, lists, ocp, forceVars>>

\* A statement of the script raises (a missing file, a solver failure): the
\* script stops there.
MainRaises ==
    /\ mpc \in {"load_data", "phase_time", "experimental_data", "solver",
                "in_solve", "save", "animate", "graphs"}
    /\ mpc' = "raised"
    /\ UNCHANGED <<trace, sol, pc, p, inputs, sol_previous, lists, ocp, forceVars>>

MainScript ==
    \/ LoadData
    \/ PhaseTimeShootingNumbers
    \/ GetExperimentalData
    \/ CallPrepareOcp
    \/ PrepareOcpReturns
    \/ ConfigureSolver
    \/ CallSolve
    \/ SolveReturns
    \/ Save
    \/ Animate
    \/ Graphs
    \/ MainRaises

InitMain ==
    /\ mpc = "load_data"
    /\ trace = <<>>
    /\ sol = "none"
    /\ pc = "idle"
    /\ p = 0
    /\ nb_phases = MainNbPhases
    /\ nb_tau \in 1..MaxTau
    /\ nb_mus \in 1..MaxMus
    /\ q_ref \in RefArrays(nb_phases)
    /\ qdot_ref \in RefArrays(nb_phases)
    /\ gait_bo \in SavedFiles
    /\ sol_previous = NoSolution
    /\ EmptyLists
    /\ ocp = <<>>
    /\ ForceIdle

NextMain == MainScript \/ PrepareOcp

SpecMain == InitMain /\ [][NextMain]_vars

\* ------------------------------------------------ track_sum_contact_forces
Axes == <<"X", "Y", "Z">>

\* Contact names as sequences of characters ("Heel_r_X" shortened).
ContactNames ==
    { <<"H", "_", "X">>, <<"H", "_", "Y">>, <<"H", "_", "Z">>,
      <<"X", "_", "Z">>, <<"Y", "_", "r">> }

\* s[-1]
LastChar(s) == s[Len(s)]

RECURSIVE ContactIndexFrom(_, _, _)
ContactIndexFrom(names, tag, i) ==
    IF i >= Len(names)
      THEN <<>>
      ELSE (IF LastChar(names[i + 1]) = tag THEN <<i>> ELSE <<>>)
           \o ContactIndexFrom(names, tag, i + 1)

RECURSIVE FirstCharIndexFrom(_, _, _)
FirstCharIndexFrom(names, tag, i) ==
    IF i >= Len(names)
      THEN <<>>
      ELSE (IF names[i + 1][1] = tag THEN <<i>> ELSE <<>>)
           \o FirstCharIndexFrom(names, tag, i + 1)

get_contact_index_first(names, tag) == FirstCharIndexFrom(names, tag, 0)

\* [i for i, t in enumerate([s[-1] == tag for s in force_names]) if t]
get_contact_index(names, tag) == ContactIndexFrom(names, tag, 0)

\* sum1(force_tp[index, :])
SumRows(rows, index) == SeqSum([k \in 1..Len(index) |-> rows[index[k] + 1]])

\* force = vertcat(sum1(force_tp[get_contact_index(pn, "X"), :]), ... "Y" ..., ... "Z" ...)
track_sum_contact_forces ==
    /\ fpc = "called"
    /\ force' = [a \in 1..3 |-> SumRows(force_tp, get_contact_index(force_names, Axes[a]))]
    /\ fpc' = "returned"
    /\ UNCHANGED <<mainVars, pc, p, inputs, sol_previous, lists, ocp, force_names, force_tp>>

InitForce ==
    /\ mpc = "none"
    /\ trace = <<>>
    /\ sol = "none"
    /\ pc = "idle"
    /\ p = 0
    /\ nb_phases = MainNbPhases
    /\ nb_tau = 1
    /\ nb_mus = 1
    /\ q_ref = [ph \in Phases(nb_phases) |-> ph]
    /\ qdot_ref = [ph \in Phases(nb_phases) |-> ph]
    /\ gait_bo = NoSolution
    /\ sol_previous = NoSolution
    /\ EmptyLists
    /\ ocp = <<>>
    /\ fpc = "called"
    /\ \E n \in 0..MaxContacts :
          /\ force_names \in [1..n -> ContactNames]
          /\ force_tp \in [1..n -> 1..MaxForce]
    /\ force = <<>>

NextForce == track_sum_contact_forces

SpecForce == InitForce /\ [][NextForce]_vars

\* ================================================================== claims

\* The calls and returns of a complete run of the script.
FullRun ==
    <<"load_data", "phase_time", "experimental_data", "prepare_ocp_call",
      "prepare_ocp_return", "solver", "solve_call", "solve_return", "save",
      "animate", "graphs">>

Happened(e) == \E k \in 1..Len(trace) : trace[k] = e

\* C1: in every run of the main script the steps happen in program order and
\* each at most once (what has happened so far is always an initial part of
\* load, phase times, experimental data, prepare_ocp, solver configuration,
\* solve, save, animate, graphs); solve is not invoked before prepare_ocp has
\* returned the problem, and save is not performed unless solve has returned a
\* solution.
C1_MainOrder ==
    /\ Len(trace) <= Len(FullRun)
    /\ trace = SubSeq(FullRun, 1, Len(trace))
    /\ Happened("solve_call") => (pc = "returned" /\ ocp # <<>>)
    /\ Happened("save") => (Happened("solve_return") /\ sol = "solution")

C1_Witness ==
    /\ mpc = "end"
    /\ trace = FullRun
    /\ sol = "solution"

\* C2: for every phase p, the state initial guess handed to the
\* OptimalControlProgram is built from q_ref[p] and qdot_ref[p].
C2_InitialGuessFromRef ==
    \A k \in 1..Len(x_init) : x_init[k].init = <<q_ref[k - 1], qdot_ref[k - 1]>>

DynamicsBuilt == pc \notin {"idle", "objectives", "grf_objectives", "dynamics"}

\* C3: once the dynamics are registered there is exactly one entry for each
\* phase 0..nb_phases-1 and none for another phase: with torque, and with
\* contact for every phase except the last one.
C3_DynamicsPerPhase ==
    DynamicsBuilt =>
        /\ \A k \in 1..Len(dynamics) : dynamics[k].phase \in Phases(nb_phases)
        /\ \A ph \in Phases(nb_phases) :
              /\ Cardinality({k \in 1..Len(dynamics) : dynamics[k].phase = ph}) = 1
              /\ \A k \in 1..Len(dynamics) :
                    dynamics[k].phase = ph =>
                        /\ dynamics[k].fcn = "MUSCLE_DRIVEN"
                        /\ dynamics[k].with_torque
                        /\ dynamics[k].with_contact = (ph # nb_phases - 1)

\* The contacts whose name ends with the letter tag.
EndsWith(tag) ==
    {i \in 0..(Len(force_names) - 1) :
        force_names[i + 1][Len(force_names[i + 1])] = tag}

RECURSIVE RowsTotal(_)
RowsTotal(S) ==
    IF S = {} THEN 0
    ELSE LET i == CHOOSE j \in S : TRUE
         IN  force_tp[i + 1] + RowsTotal(S \ {i})

\* C4: get_contact_index returns, ascending and without duplicates, exactly
\* the indices of the contacts whose name ends with the tag; every contact
\* whose name ends in X, Y or Z is in exactly one of the three lists, once;
\* and each component of the returned force is the sum of those rows.
C4_ContactForceSum ==
    /\ \A a \in 1..3 :
          LET index == get_contact_index(force_names, Axes[a])
          IN  /\ \A j, k \in 1..Len(index) : j < k => index[j] < index[k]
              /\ {index[k] : k \in 1..Len(index)} = EndsWith(Axes[a])
    /\ \A i \in 0..(Len(force_names) - 1) :
          i \in (EndsWith("X") \cup EndsWith("Y") \cup EndsWith("Z")) =>
              Cardinality({ak \in (1..3) \X (1..Len(force_names)) :
                  LET index == get_contact_index(force_names, Axes[ak[1]])
                  IN  ak[2] <= Len(index) /\ index[ak[2]] = i}) = 1
    /\ fpc = "returned" =>
          /\ Len(force) = 3
          /\ \A a \in 1..3 : force[a] = RowsTotal(EndsWith(Axes[a]))

C4_Witness ==
    /\ fpc = "returned"
    /\ force_names = << <<"X", "_", "Z">>, <<"H", "_", "X">>, <<"H", "_", "Z">> >>
    /\ force = <<force_tp[2], 0, force_tp[1] + force_tp[3]>>

\* C5: x_bounds and u_bounds get one entry per phase, in phase order, and so
\* do x_init and u_init when prepare_ocp reaches its return; every u_bounds
\* entry has nb_tau + nb_mus components, the first nb_tau bounded by
\* [-1000, 1000] and the others by [0.001, 1.0] (in thousandths here), the
\* lower bound strictly below the upper one.
C5_Containers ==
    /\ Len(x_bounds) = Len(u_bounds)
    /\ Len(x_init) = Len(u_init)
    /\ pc = "bounds" => Len(x_bounds) = p
    /\ pc = "init" => Len(x_init) = p
    /\ pc \in {"load_previous", "init", "return", "returned"} =>
          Len(x_bounds) = nb_phases
    /\ pc \in {"return", "returned"} => Len(x_init) = nb_phases
    /\ \A k \in 1..Len(x_bounds) : x_bounds[k].model = k - 1
    /\ \A k \in 1..Len(u_bounds) :
          /\ Len(u_bounds[k].min) = nb_tau + nb_mus
          /\ Len(u_bounds[k].max) = nb_tau + nb_mus
          /\ \A c \in 1..(nb_tau + nb_mus) :
                /\ u_bounds[k].min[c] < u_bounds[k].max[c]
                /\ c <= nb_tau =>
                      (u_bounds[k].min[c] = -1000000 /\ u_bounds[k].max[c] = 1000000)
                /\ c > nb_tau =>
                      (u_bounds[k].min[c] = 1 /\ u_bounds[k].max[c] = 1000)

C5_Witness ==
    /\ pc = "returned"
    /\ nb_phases = 4
    /\ nb_tau = 2
    /\ nb_mus = 2
    /\ Len(u_bounds) = 4
    /\ Len(x_init) = 4

====
